---- MODULE Spec2Model ----
(***************************************************************************)
(* Chad 5401 - Session Capture (src/src/server.js).                        *)
(*                                                                         *)
(* State machine of the transcript processor: processTranscripts passes    *)
(* (timer driven and /process driven, possibly overlapping) over the raw   *)
(* record table dev_transcripts_raw and the session table dev_ai_sessions, *)
(* with the pure helpers groupByTimeWindow, extractCwdFromContent,         *)
(* parseRoutingFromCwd, isHomePath, normalizeSlug and resolveProjectSlug   *)
(* translated from the source.                                             *)
(*                                                                         *)
(* Text.  A JavaScript string is a sequence of one-character strings.  To  *)
(* keep long contents small, an element may also be a run: "~40", "~60" or *)
(* "~120" stands for that many copies of the character "~" (a character no *)
(* pattern of the program looks for).  TextLen gives the string's length.  *)
(* null and "" are both the empty sequence: the program only ever tests    *)
(* these fields for falsiness.  A null number (team_port) is 0, which the  *)
(* program also only tests for falsiness.  Timestamps are milliseconds     *)
(* since the epoch (what new Date(s).getTime() yields).                    *)
(***************************************************************************)
EXTENDS Integers, Sequences, FiniteSets, TLC

------------------------------------------------------------------------------
(* Text helpers *)

RunLen(c) ==
  CASE c = "~40" -> 40
    [] c = "~60" -> 60
    [] c = "~120" -> 120
    [] OTHER -> 1

RECURSIVE TextLen(_)
TextLen(s) == IF s = <<>> THEN 0 ELSE RunLen(Head(s)) + TextLen(Tail(s))

\* String.prototype.toLowerCase, on the characters the model uses
ToLowerChar(c) ==
  CASE c = "C" -> "c"
    [] c = "U" -> "u"
    [] c = "H" -> "h"
    [] c = "R" -> "r"
    [] c = "A" -> "a"
    [] OTHER -> c

ToLower(s) == [i \in 1..Len(s) |-> ToLowerChar(s[i])]

\* s.replace(/\\/g, "/")
SlashNormalize(s) == [i \in 1..Len(s) |-> IF s[i] = "\\" THEN "/" ELSE s[i]]

\* pat occurs in s at index i
MatchAt(s, i, pat) ==
  /\ i >= 1
  /\ i + Len(pat) - 1 <= Len(s)
  /\ \A k \in 1..Len(pat) : s[i + k - 1] = pat[k]

\* String.prototype.includes
Includes(s, pat) == \E i \in 1..(Len(s) + 1) : MatchAt(s, i, pat)

\* String.prototype.endsWith
EndsWith(s, pat) == MatchAt(s, Len(s) - Len(pat) + 1, pat)

\* String.prototype.substring(0, n); a run is never cut in the model
RECURSIVE Substring0(_, _)
Substring0(s, n) ==
  IF s = <<>> \/ n <= 0 THEN <<>>
  ELSE IF RunLen(Head(s)) > n THEN <<>>
  ELSE <<Head(s)>> \o Substring0(Tail(s), n - RunLen(Head(s)))

IsDigit(c) == c \in {"0", "1", "2", "3", "4", "5", "6", "7", "8", "9"}

IsLowerAlpha(c) ==
  c \in {"a", "b", "c", "d", "e", "f", "g", "h", "i", "j", "k", "l", "m",
         "n", "o", "p", "q", "r", "s", "t", "u", "v", "w", "x", "y", "z"}

IsSpace(c) == c \in {" ", "\t", "\n"}

DigitVal(c) ==
  CASE c = "0" -> 0 [] c = "1" -> 1 [] c = "2" -> 2 [] c = "3" -> 3
    [] c = "4" -> 4 [] c = "5" -> 5 [] c = "6" -> 6 [] c = "7" -> 7
    [] c = "8" -> 8 [] c = "9" -> 9

DigitChar(d) ==
  CASE d = 0 -> "0" [] d = 1 -> "1" [] d = 2 -> "2" [] d = 3 -> "3"
    [] d = 4 -> "4" [] d = 5 -> "5" [] d = 6 -> "6" [] d = 7 -> "7"
    [] d = 8 -> "8" [] d = 9 -> "9"

\* parseInt(s, 10) of a string of digits
RECURSIVE ParseInt(_)
ParseInt(s) ==
  IF s = <<>> THEN 0 ELSE 10 * ParseInt(SubSeq(s, 1, Len(s) - 1)) + DigitVal(s[Len(s)])

\* the string a number turns into under string concatenation
RECURSIVE NumToText(_)
NumToText(n) ==
  IF n < 10 THEN <<DigitChar(n)>> ELSE NumToText(n \div 10) \o <<DigitChar(n % 10)>>

\* number of "\n" in s: (content.match(/\n/g) || []).length
RECURSIVE CountNewlines(_)
CountNewlines(s) ==
  IF s = <<>> THEN 0
  ELSE (IF Head(s) = "\n" THEN 1 ELSE 0) + CountNewlines(Tail(s))

------------------------------------------------------------------------------
(* Program constants *)

TIME_WINDOW_MS == 1800000

\* content.length < 100 is noise
MIN_CONTENT_LENGTH == 100

\* the value of an absent team_port in the window key (t.team_port || 0)
NO_PORT == 0

\* an absent original_timestamp
NO_TIMESTAMP == -1

T_transcript == <<"t", "r", "a", "n", "s", "c", "r", "i", "p", "t">>
T_unknown == <<"u", "n", "k", "n", "o", "w", "n">>
T_unassigned == <<"u", "n", "a", "s", "s", "i", "g", "n", "e", "d">>
T_colon == <<":">>

------------------------------------------------------------------------------
(* groupByTimeWindow *)

\* const ts = t.original_timestamp ? ... : new Date(t.received_at).getTime()
RecordTs(t) ==
  IF t.original_timestamp # NO_TIMESTAMP THEN t.original_timestamp ELSE t.received_at

\* Math.floor(ts / TIME_WINDOW_MS) * TIME_WINDOW_MS
WindowStartOf(ts) == (ts \div TIME_WINDOW_MS) * TIME_WINDOW_MS

KeySourceType(t) == IF t.source_type # <<>> THEN t.source_type ELSE T_transcript
KeySourceName(t) == IF t.session_file # <<>> THEN t.session_file ELSE T_unknown
KeyTeamPort(t) == IF t.team_port # 0 THEN t.team_port ELSE NO_PORT

\* sourceType + ':' + sourceName + ':' + teamPort + ':' + windowStart
WindowKey(t) ==
  KeySourceType(t) \o T_colon \o KeySourceName(t) \o T_colon
    \o NumToText(KeyTeamPort(t)) \o T_colon \o NumToText(WindowStartOf(RecordTs(t)))

\* the object a key is first bound to
NewWindow(t) ==
  [windowStart |-> WindowStartOf(RecordTs(t)),
   source_type |-> KeySourceType(t),
   session_file |-> KeySourceName(t),
   project_folder |-> t.project_folder,
   project_slug |-> t.project_slug,
   team_port |-> t.team_port,
   transcripts |-> <<>>,
   content |-> <<>>,
   earliest_ts |-> RecordTs(t),
   latest_ts |-> RecordTs(t)]

Min(a, b) == IF a <= b THEN a ELSE b
Max(a, b) == IF a >= b THEN a ELSE b

\* push t, append its content and a newline, widen the timestamps
AddToWindow(w, t) ==
  [w EXCEPT !.transcripts = Append(@, t),
            !.content = @ \o t.content \o <<"\n">>,
            !.earliest_ts = Min(@, RecordTs(t)),
            !.latest_ts = Max(@, RecordTs(t))]

\* index of key in keys, 0 when absent
KeyIndex(keys, key) ==
  IF \E i \in 1..Len(keys) : keys[i] = key
  THEN CHOOSE i \in 1..Len(keys) : keys[i] = key
  ELSE 0

\* one iteration of the for loop; acc = [keys, wins], in insertion order
GroupStep(acc, t) ==
  LET key == WindowKey(t)
      i == KeyIndex(acc.keys, key)
  IN IF i = 0
     THEN [keys |-> Append(acc.keys, key),
           wins |-> Append(acc.wins, AddToWindow(NewWindow(t), t))]
     ELSE [keys |-> acc.keys,
           wins |-> [acc.wins EXCEPT ![i] = AddToWindow(@, t)]]

RECURSIVE GroupFold(_, _)
GroupFold(acc, transcripts) ==
  IF transcripts = <<>> THEN acc
  ELSE GroupFold(GroupStep(acc, Head(transcripts)), Tail(transcripts))

\* Object.values(windows)
groupByTimeWindow(transcripts) ==
  GroupFold([keys |-> <<>>, wins |-> <<>>], transcripts).wins

------------------------------------------------------------------------------
(* extractCwdFromContent *)

T_cwdField == <<"\"", "c", "w", "d", "\"">>

\* index of the first non-whitespace character at or after i (\s*)
RECURSIVE SkipSpaces(_, _)
SkipSpaces(s, i) ==
  IF i <= Len(s) /\ IsSpace(s[i]) THEN SkipSpaces(s, i + 1) ELSE i

\* index of the first '"' at or after i, Len(s) + 1 when there is none ([^"]+)
RECURSIVE NextQuote(_, _)
NextQuote(s, i) ==
  IF i > Len(s) \/ s[i] = "\"" THEN i ELSE NextQuote(s, i + 1)

\* /"cwd"\s*:\s*"([^"]+)"/ tried at index i: [ok, next, value]
MatchCwdAt(s, i) ==
  LET j1 == SkipSpaces(s, i + Len(T_cwdField))
      j2 == SkipSpaces(s, j1 + 1)
      k == NextQuote(s, j2 + 1)
  IN IF /\ MatchAt(s, i, T_cwdField)
        /\ j1 <= Len(s) /\ s[j1] = ":"
        /\ j2 <= Len(s) /\ s[j2] = "\""
        /\ k <= Len(s)
        /\ k > j2 + 1
     THEN [ok |-> TRUE, next |-> k + 1, value |-> SubSeq(s, j2 + 1, k - 1)]
     ELSE [ok |-> FALSE, next |-> i + 1, value |-> <<>>]

\* content.match(/.../g): the matches left to right, non-overlapping; the last
\* one's capture, in [found, value]
RECURSIVE LastCwdMatch(_, _, _)
LastCwdMatch(s, i, best) ==
  IF i > Len(s) THEN best
  ELSE LET m == MatchCwdAt(s, i)
       IN IF m.ok
          THEN LastCwdMatch(s, m.next, [found |-> TRUE, value |-> m.value])
          ELSE LastCwdMatch(s, i + 1, best)

\* .replace(/\\\\/g, "/"): each pair of backslashes becomes one slash
RECURSIVE ReplaceDoubleBackslash(_)
ReplaceDoubleBackslash(s) ==
  IF s = <<>> THEN <<>>
  ELSE IF Len(s) >= 2 /\ s[1] = "\\" /\ s[2] = "\\"
       THEN <<"/">> \o ReplaceDoubleBackslash(SubSeq(s, 3, Len(s)))
       ELSE <<Head(s)>> \o ReplaceDoubleBackslash(Tail(s))

\* the extracted cwd, <<>> for null
extractCwdFromContent(content) ==
  IF content = <<>> THEN <<>>
  ELSE LET m == LastCwdMatch(content, 1, [found |-> FALSE, value |-> <<>>])
       IN IF m.found THEN SlashNormalize(ReplaceDoubleBackslash(m.value)) ELSE <<>>

------------------------------------------------------------------------------
(* parseRoutingFromCwd *)

T_studio == <<"s", "t", "u", "d", "i", "o", "/">>
T_projects == <<"p", "r", "o", "j", "e", "c", "t", "s", "/">>

PORT_MIN == 4000
PORT_MAX == 9999

\* [a-z0-9-]
IsSlugChar(c) == IsLowerAlpha(c) \/ IsDigit(c) \/ c = "-"

AllSlugChars(s, i, k) == \A x \in i..k : IsSlugChar(s[x])

\* s[i..k] is group 1, s[k+1] the hyphen, four digits follow
PortMatchAt(s, i, k) ==
  /\ i <= k
  /\ k + 5 <= Len(s)
  /\ AllSlugChars(s, i, k)
  /\ s[k + 1] = "-"
  /\ \A x \in (k + 2)..(k + 5) : IsDigit(s[x])

\* normalized.match(/([a-z0-9-]+)-(\d{4,5})/): leftmost start, then the longest
\* group 1 (greedy), then five digits when there are five
PortMatch(s) ==
  IF \E i \in 1..Len(s) : \E k \in i..Len(s) : PortMatchAt(s, i, k)
  THEN LET i == CHOOSE a \in 1..Len(s) :
                  /\ \E k \in a..Len(s) : PortMatchAt(s, a, k)
                  /\ \A b \in 1..(a - 1) : ~ \E k \in b..Len(s) : PortMatchAt(s, b, k)
           k == CHOOSE a \in i..Len(s) :
                  /\ PortMatchAt(s, i, a)
                  /\ \A b \in (a + 1)..Len(s) : ~ PortMatchAt(s, i, b)
           nd == IF k + 6 <= Len(s) /\ IsDigit(s[k + 6]) THEN 5 ELSE 4
       IN [ok |-> TRUE, g1 |-> SubSeq(s, i, k), g2 |-> SubSeq(s, k + 2, k + 1 + nd)]
  ELSE [ok |-> FALSE, g1 |-> <<>>, g2 |-> <<>>]

\* index of the first "/" at or after i, Len(s) + 1 when there is none ([^\/]+)
RECURSIVE NextSlash(_, _)
NextSlash(s, i) ==
  IF i > Len(s) \/ s[i] = "/" THEN i ELSE NextSlash(s, i + 1)

\* pre followed by at least one character that is no slash, at index i
SegmentMatchAt(s, i, pre) ==
  /\ MatchAt(s, i, pre)
  /\ i + Len(pre) <= Len(s)
  /\ s[i + Len(pre)] # "/"

\* normalized.match(/studio\/([^\/]+)/) and /projects\/([^\/]+)/: [ok, g1]
SegmentMatch(s, pre) ==
  IF \E i \in 1..Len(s) : SegmentMatchAt(s, i, pre)
  THEN LET i == CHOOSE a \in 1..Len(s) :
                  /\ SegmentMatchAt(s, a, pre)
                  /\ \A b \in 1..(a - 1) : ~ SegmentMatchAt(s, b, pre)
           from == i + Len(pre)
       IN [ok |-> TRUE, g1 |-> SubSeq(s, from, NextSlash(s, from) - 1)]
  ELSE [ok |-> FALSE, g1 |-> <<>>]

NoRouting == [project_slug |-> <<>>, team_port |-> 0]

parseRoutingFromCwd(cwd) ==
  IF cwd = <<>> THEN NoRouting
  ELSE LET normalized == ToLower(SlashNormalize(cwd))
           portMatch == PortMatch(normalized)
           port == ParseInt(portMatch.g2)
           studioMatch == SegmentMatch(normalized, T_studio)
           projectsMatch == SegmentMatch(normalized, T_projects)
       IN IF portMatch.ok /\ port >= PORT_MIN /\ port <= PORT_MAX
          THEN [project_slug |-> portMatch.g1 \o <<"-">> \o portMatch.g2, team_port |-> port]
          ELSE IF studioMatch.ok THEN [project_slug |-> studioMatch.g1, team_port |-> 0]
          ELSE IF projectsMatch.ok THEN [project_slug |-> projectsMatch.g1, team_port |-> 0]
          ELSE NoRouting

------------------------------------------------------------------------------
(* isHomePath *)

T_home == <<"/", "h", "o", "m", "e", "/">>
T_root == <<"/", "r", "o", "o", "t", "/">>
T_rootEnd == <<"/", "r", "o", "o", "t">>
T_users == <<"\\", "u", "s", "e", "r", "s", "\\">>

\* /^[a-z]:\\users\\/i
DriveUsersMatch(c) ==
  /\ Len(c) >= 2
  /\ IsLowerAlpha(ToLowerChar(c[1]))
  /\ c[2] = ":"
  /\ MatchAt(ToLower(c), 3, T_users)

isHomePath(p) ==
  IF p = <<>> THEN FALSE
  ELSE LET c == ToLower(p)
       IN \/ Includes(c, T_home)
          \/ Includes(c, T_root)
          \/ EndsWith(c, T_rootEnd)
          \/ Includes(c, T_users)
          \/ DriveUsersMatch(c)

------------------------------------------------------------------------------
(* LOW_TRUST_SLUGS, SLUG_PORT_MAP, normalizeSlug *)

T_ai_team == <<"a", "i", "-", "t", "e", "a", "m">>
T_terminal == <<"t", "e", "r", "m", "i", "n", "a", "l">>
T_default == <<"d", "e", "f", "a", "u", "l", "t">>
T_studioSlug == <<"s", "t", "u", "d", "i", "o">>
T_www == <<"w", "w", "w">>

LOW_TRUST_SLUGS ==
  {T_ai_team, T_terminal, T_unassigned, T_unknown, T_default, T_studioSlug, T_www}

T_ai_chad == <<"a", "i", "-", "c", "h", "a", "d">>
T_ai_jen == <<"a", "i", "-", "j", "e", "n">>
T_ai_susan == <<"a", "i", "-", "s", "u", "s", "a", "n">>
T_ai_clair == <<"a", "i", "-", "c", "l", "a", "i", "r">>
T_ai_jason == <<"a", "i", "-", "j", "a", "s", "o", "n">>
T_ai_mike == <<"a", "i", "-", "m", "i", "k", "e">>
T_ai_tiffany == <<"a", "i", "-", "t", "i", "f", "f", "a", "n", "y">>
T_ai_ryan == <<"a", "i", "-", "r", "y", "a", "n">>
T_kodiack_dashboard == <<"k", "o", "d", "i", "a", "c", "k", "-", "d", "a", "s", "h", "b", "o", "a", "r", "d">>
T_terminal_server == <<"t", "e", "r", "m", "i", "n", "a", "l", "-", "s", "e", "r", "v", "e", "r">>
T_dashboard_5500 == <<"d", "a", "s", "h", "b", "o", "a", "r", "d", "-", "5", "5", "0", "0">>
T_nextbid == <<"n", "e", "x", "t", "b", "i", "d">>
T_kodiack_studio == <<"k", "o", "d", "i", "a", "c", "k", "-", "s", "t", "u", "d", "i", "o">>

SLUG_PORT_MAP ==
  <<[key |-> T_ai_chad, value |-> T_ai_chad \o <<"-", "5", "4", "0", "1">>],
    [key |-> T_ai_jen, value |-> T_ai_jen \o <<"-", "5", "4", "0", "2">>],
    [key |-> T_ai_susan, value |-> T_ai_susan \o <<"-", "5", "4", "0", "3">>],
    [key |-> T_ai_clair, value |-> T_ai_clair \o <<"-", "5", "4", "0", "4">>],
    [key |-> T_ai_jason, value |-> T_ai_jason \o <<"-", "5", "4", "0", "8">>],
    [key |-> T_ai_mike, value |-> T_ai_mike \o <<"-", "5", "4", "0", "5">>],
    [key |-> T_ai_tiffany, value |-> T_ai_tiffany \o <<"-", "5", "4", "0", "6">>],
    [key |-> T_ai_ryan, value |-> T_ai_ryan \o <<"-", "5", "4", "0", "7">>],
    [key |-> T_kodiack_dashboard, value |-> T_kodiack_dashboard \o <<"-", "5", "5", "0", "0">>],
    [key |-> T_terminal_server, value |-> T_terminal_server \o <<"-", "5", "4", "0", "0">>]>>

\* SLUG_PORT_MAP[slug] || slug
normalizeSlug(slug) ==
  IF slug = <<>> THEN slug
  ELSE IF \E i \in 1..Len(SLUG_PORT_MAP) : SLUG_PORT_MAP[i].key = slug
       THEN SLUG_PORT_MAP[CHOOSE i \in 1..Len(SLUG_PORT_MAP) : SLUG_PORT_MAP[i].key = slug].value
       ELSE slug

------------------------------------------------------------------------------
(* resolveProjectSlug *)

SNIFF_LIMIT == 5000

\* the ordered substring patterns of the content sniffer
patterns ==
  <<[match |-> T_kodiack_dashboard, slug |-> T_kodiack_dashboard \o <<"-", "5", "5", "0", "0">>],
    [match |-> T_dashboard_5500, slug |-> T_kodiack_dashboard \o <<"-", "5", "5", "0", "0">>],
    [match |-> T_ai_jen, slug |-> T_ai_jen \o <<"-", "5", "4", "0", "2">>],
    [match |-> T_ai_susan, slug |-> T_ai_susan \o <<"-", "5", "4", "0", "3">>],
    [match |-> T_ai_chad, slug |-> T_ai_chad \o <<"-", "5", "4", "0", "1">>],
    [match |-> T_ai_jason, slug |-> T_ai_jason \o <<"-", "5", "4", "0", "8">>],
    [match |-> T_terminal_server, slug |-> T_terminal_server \o <<"-", "5", "4", "0", "0">>],
    [match |-> T_nextbid, slug |-> T_nextbid],
    [match |-> T_kodiack_studio, slug |-> T_kodiack_studio]>>

\* [session_file, project_folder, content.substring(0, 5000)].join(' ').toLowerCase()
Haystack(win) ==
  ToLower(win.session_file \o <<" ">> \o win.project_folder \o <<" ">>
            \o Substring0(win.content, SNIFF_LIMIT))

\* faulty variant: the content sniffer is asked before the path router
resolveContentFirst(win, cwd) ==
  LET routing == parseRoutingFromCwd(cwd)
      hits == {i \in 1..Len(patterns) : Includes(Haystack(win), patterns[i].match)}
      first == CHOOSE i \in hits : \A j \in hits : i <= j
  IN IF win.project_slug # <<>> /\ win.project_slug \notin LOW_TRUST_SLUGS
     THEN [slug |-> normalizeSlug(win.project_slug),
           reason |-> [kind |-> "transcript", match |-> <<>>],
           port |-> win.team_port]
     ELSE IF hits # {}
     THEN [slug |-> patterns[first].slug,
           reason |-> [kind |-> "content", match |-> patterns[first].match],
           port |-> 0]
     ELSE IF cwd # <<>> /\ ~ isHomePath(cwd) /\ routing.project_slug # <<>>
     THEN [slug |-> routing.project_slug,
           reason |-> [kind |-> "cwd", match |-> <<>>],
           port |-> routing.team_port]
     ELSE [slug |-> T_unassigned,
           reason |-> [kind |-> "no_match", match |-> <<>>],
           port |-> 0]

\* faulty variant: a low-trust slug is handed back when nothing else is found
resolveNoSentinel(win, cwd) ==
  LET routing == parseRoutingFromCwd(cwd)
      hits == {i \in 1..Len(patterns) : Includes(Haystack(win), patterns[i].match)}
      first == CHOOSE i \in hits : \A j \in hits : i <= j
  IN IF win.project_slug # <<>> /\ win.project_slug \notin LOW_TRUST_SLUGS
     THEN [slug |-> normalizeSlug(win.project_slug),
           reason |-> [kind |-> "transcript", match |-> <<>>],
           port |-> win.team_port]
     ELSE IF cwd # <<>> /\ ~ isHomePath(cwd) /\ routing.project_slug # <<>>
     THEN [slug |-> routing.project_slug,
           reason |-> [kind |-> "cwd", match |-> <<>>],
           port |-> routing.team_port]
     ELSE IF hits # {}
     THEN [slug |-> patterns[first].slug,
           reason |-> [kind |-> "content", match |-> patterns[first].match],
           port |-> 0]
     ELSE [slug |-> win.project_slug,
           reason |-> [kind |-> "no_match", match |-> <<>>],
           port |-> 0]

\* the identity {slug, reason, port}; reason "content:" + pat.match is
\* [kind |-> "content", match |-> pat.match]
resolveProjectSlug(win, cwd) ==
  LET routing == parseRoutingFromCwd(cwd)
      haystack == Haystack(win)
      hits == {i \in 1..Len(patterns) : Includes(haystack, patterns[i].match)}
      first == CHOOSE i \in hits : \A j \in hits : i <= j
  IN IF win.project_slug # <<>> /\ win.project_slug \notin LOW_TRUST_SLUGS
     THEN [slug |-> normalizeSlug(win.project_slug),
           reason |-> [kind |-> "transcript", match |-> <<>>],
           port |-> win.team_port]
     ELSE IF cwd # <<>> /\ ~ isHomePath(cwd) /\ routing.project_slug # <<>>
     THEN [slug |-> routing.project_slug,
           reason |-> [kind |-> "cwd", match |-> <<>>],
           port |-> routing.team_port]
     ELSE IF hits # {}
     THEN [slug |-> patterns[first].slug,
           reason |-> [kind |-> "content", match |-> patterns[first].match],
           port |-> 0]
     ELSE [slug |-> T_unassigned,
           reason |-> [kind |-> "no_match", match |-> <<>>],
           port |-> 0]

------------------------------------------------------------------------------
(* The stores and the passes *)

\* the two callers of processTranscripts: setInterval/setTimeout, POST /process
Passes == {"timer", "process"}

\* .limit(500), scaled to the size of the model
FETCH_LIMIT == 2

T_s1 == <<"s", "1">>
T_terminalFile == <<"t", "e", "r", "m", "i", "n", "a", "l", "/", "5", "4", "0", "0">>
T_cwdA5401 == <<"\"", "c", "w", "d", "\"", ":", "\"", "/", "a", "-", "5", "4", "0", "1", "\"">>

\* The raw records the upstream producer may write (dev_transcripts_raw rows).
\* 1 and 2 fall into one window and are each shorter than 100 characters, longer
\* together; 3 is a long terminal record of the window before, whose content
\* names a cwd.
CandidateRecords ==
  <<[id |-> 1, source_type |-> T_transcript, session_file |-> T_s1,
     project_slug |-> T_ai_chad, project_folder |-> <<>>, team_port |-> 0,
     content |-> <<"A", "~60">>, original_timestamp |-> 1800000, received_at |-> 1800000,
     processed |-> FALSE],
    [id |-> 2, source_type |-> T_transcript, session_file |-> T_s1,
     project_slug |-> <<>>, project_folder |-> <<>>, team_port |-> 0,
     content |-> <<"B", "~60">>, original_timestamp |-> 2400000, received_at |-> 2400000,
     processed |-> FALSE],
    [id |-> 3, source_type |-> T_terminal, session_file |-> T_terminalFile,
     project_slug |-> T_terminal, project_folder |-> <<>>, team_port |-> 5400,
     content |-> <<"C", "~120">> \o T_cwdA5401, original_timestamp |-> 0,
     received_at |-> 0, processed |-> FALSE]>>

Ids == 1..Len(CandidateRecords)

\* the project slugs dev_projects holds an id for
DevProjects == {T_unassigned, T_ai_chad \o <<"-", "5", "4", "0", "1">>}

\* the opaque id of the dev_projects row of a slug
ProjectIdOf(slug) == <<"#">> \o slug

VARIABLES
  raw,                 \* dev_transcripts_raw: id -> record, of the records written so far
  sessions,            \* dev_ai_sessions: the rows, in insertion order
  pc,                  \* per pass: the await it is suspended at
  windows,             \* per pass: const windows
  idx,                 \* per pass: position of the for-of loop over windows
  markIdx,             \* per pass: position of the loop of markTranscriptsProcessed
  sessionsCreated,     \* per pass: let sessionsCreated
  transcriptsProcessed,\* per pass: let transcriptsProcessed
  errors,              \* per pass: let errors
  resolvedProjectUuid, \* per pass: let resolvedProjectUuid
  insertError,         \* per pass: const insertError of the current window
  result,              \* per pass: the summary it returned
  resolution,          \* a call of the identity resolver: its arguments and results
  grouping             \* a call of groupByTimeWindow: its batch and results

vars ==
  <<raw, sessions, pc, windows, idx, markIdx, sessionsCreated, transcriptsProcessed,
    errors, resolvedProjectUuid, insertError, result, resolution, grouping>>

storeVars == <<raw, sessions>>

\* the variables of the passes and the stores
passVars ==
  <<raw, sessions, pc, windows, idx, markIdx, sessionsCreated, transcriptsProcessed,
    errors, resolvedProjectUuid, insertError, result>>

\* the variables of the calls of the pure helpers
callVars == <<resolution, grouping>>

\* no call of a pure helper is being looked at
NoCall == [none |-> TRUE]

NoResult == [none |-> TRUE]

\* no pass has run, both tables are empty
PassInit ==
  /\ raw = <<>>
  /\ sessions = <<>>
  /\ pc = [p \in Passes |-> "idle"]
  /\ windows = [p \in Passes |-> <<>>]
  /\ idx = [p \in Passes |-> 0]
  /\ markIdx = [p \in Passes |-> 0]
  /\ sessionsCreated = [p \in Passes |-> 0]
  /\ transcriptsProcessed = [p \in Passes |-> 0]
  /\ errors = [p \in Passes |-> 0]
  /\ resolvedProjectUuid = [p \in Passes |-> <<>>]
  /\ insertError = [p \in Passes |-> "none"]
  /\ result = [p \in Passes |-> NoResult]

Init ==
  /\ PassInit
  /\ resolution = NoCall
  /\ grouping = NoCall

------------------------------------------------------------------------------
(* The record store (./lib/db): what its operations answer *)

Unprocessed(table) == {table[i] : i \in {j \in DOMAIN table : ~ table[j].processed}}

\* .order('original_timestamp', { ascending: true }): an absent timestamp sorts last
OrderedBefore(a, b) ==
  \/ b.original_timestamp = NO_TIMESTAMP
  \/ /\ a.original_timestamp # NO_TIMESTAMP
     /\ a.original_timestamp <= b.original_timestamp

\* the orders the store may return the rows of S in
OrderedSeqs(S) ==
  {s \in [1..Cardinality(S) -> S] :
     /\ \A i, j \in 1..Cardinality(S) : i # j => s[i] # s[j]
     /\ \A i, j \in 1..Cardinality(S) : i < j => OrderedBefore(s[i], s[j])}

\* .select('*').eq('processed', false).order(...).limit(500)
FetchData(table) ==
  {SubSeq(s, 1, Min(Len(s), FETCH_LIMIT)) : s \in OrderedSeqs(Unprocessed(table))}

\* the columns the session table keeps unique
UniqueKey(row) == <<row.source_type, row.source_name, row.team_port, row.started_at>>

\* faulty variant: a session table without the unique index
KeyExistsNoIndex(table, row) == FALSE

\* an insert of row collides with a row of the table
KeyExists(table, row) == \E i \in 1..Len(table) : UniqueKey(table[i]) = UniqueKey(row)

\* .select('id').eq('slug', slug).single(): the id, <<>> when there is no such row
ProjectLookup(slug) == IF slug \in DevProjects THEN ProjectIdOf(slug) ELSE <<>>

------------------------------------------------------------------------------
(* processTranscripts: the synchronous code between two awaits *)

\* const finalPort = resolved.port || window.team_port
FinalPort(resolved, win) == IF resolved.port # 0 THEN resolved.port ELSE win.team_port

Resolved(win) == resolveProjectSlug(win, extractCwdFromContent(win.content))

\* the object handed to from('dev_ai_sessions').insert
SessionRow(win, uuid) ==
  [project_id |-> uuid,
   project_uuid |-> uuid,
   project_slug |-> Resolved(win).slug,
   team_port |-> FinalPort(Resolved(win), win),
   source_type |-> IF win.source_type # <<>> THEN win.source_type ELSE T_transcript,
   source_name |-> win.session_file,
   status |-> "active",
   raw_content |-> win.content,
   message_count |-> CountNewlines(win.content) + 1,
   started_at |-> win.windowStart]

\* faulty variant: the length filter is missing
IsShortNever(win) == FALSE

\* if (content.length < 100)
IsShort(win) == TextLen(win.content) < MIN_CONTENT_LENGTH

\* window.transcripts.map(t => t.id)
WindowIds(win) == [k \in 1..Len(win.transcripts) |-> win.transcripts[k].id]

SetLocals(p, pcv, wins, i, m, sc, tp, er, uuid, ie) ==
  /\ pc' = [pc EXCEPT ![p] = pcv]
  /\ windows' = [windows EXCEPT ![p] = wins]
  /\ idx' = [idx EXCEPT ![p] = i]
  /\ markIdx' = [markIdx EXCEPT ![p] = m]
  /\ sessionsCreated' = [sessionsCreated EXCEPT ![p] = sc]
  /\ transcriptsProcessed' = [transcriptsProcessed EXCEPT ![p] = tp]
  /\ errors' = [errors EXCEPT ![p] = er]
  /\ resolvedProjectUuid' = [resolvedProjectUuid EXCEPT ![p] = uuid]
  /\ insertError' = [insertError EXCEPT ![p] = ie]

\* return summary: the locals go out of scope
Return(p, summary) ==
  /\ SetLocals(p, "done", <<>>, 0, 0, 0, 0, 0, <<>>, "none")
  /\ result' = [result EXCEPT ![p] = summary]

\* if (error) return { processed: 0, errors: 1 }
ReturnFetchError(p) == Return(p, [processed |-> 0, errors |-> 1])

\* faulty variant: the outer catch reports an empty pass
CatchProcessingSilent(p) == Return(p, [processed |-> 0, errors |-> 0, sessions |-> 0])

\* the outer catch (err): return { processed: 0, errors: 1 }
CatchProcessing(p) == Return(p, [processed |-> 0, errors |-> 1])

\* the for-of loop reaches window i with the counters sc, tp, er: past the last
\* window the pass returns its summary; a short window goes to mark its records;
\* any other goes to look its project up
ContinueAt(p, wins, i, sc, tp, er) ==
  IF i > Len(wins)
  THEN Return(p, [processed |-> tp, sessions |-> sc, errors |-> er])
  ELSE /\ SetLocals(p, IF IsShort(wins[i]) THEN "mark_short" ELSE "lookup_project",
                    wins, i, IF IsShort(wins[i]) THEN 1 ELSE 0, sc, tp, er, <<>>, "none")
       /\ UNCHANGED result

\* faulty variant: no try around the window, the exception ends the pass in the outer catch
CatchWindowAborts(p) == Return(p, [processed |-> 0, errors |-> 1])

\* catch (err) { errors++ } of the window's try, then the next window
CatchWindow(p) ==
  ContinueAt(p, windows[p], idx[p] + 1, sessionsCreated[p], transcriptsProcessed[p],
             errors[p] + 1)

\* what follows markTranscriptsProcessed: continue after the short window's marks
\* (no session counted), sessionsCreated++ after the others
AfterMarks(p) ==
  ContinueAt(p, windows[p], idx[p] + 1,
                IF pc[p] = "mark_short" THEN sessionsCreated[p] ELSE sessionsCreated[p] + 1,
                transcriptsProcessed[p] + Len(windows[p][idx[p]].transcripts),
                errors[p])

\* one update of markTranscriptsProcessed has answered: the next id, or the end
AfterUpdate(p) ==
  IF markIdx[p] < Len(windows[p][idx[p]].transcripts)
  THEN /\ markIdx' = [markIdx EXCEPT ![p] = @ + 1]
       /\ UNCHANGED <<pc, windows, idx, sessionsCreated, transcriptsProcessed, errors,
                      resolvedProjectUuid, insertError, result>>
  ELSE AfterMarks(p)

\* faulty variant: a duplicate-key answer is counted as a failure like any other
AfterInsertDuplicateFails(p, ie) ==
  IF ie # "none"
  THEN ContinueAt(p, windows[p], idx[p] + 1, sessionsCreated[p], transcriptsProcessed[p],
                  errors[p] + 1)
  ELSE /\ SetLocals(p, "mark", windows[p], idx[p], 1, sessionsCreated[p],
                    transcriptsProcessed[p], errors[p], resolvedProjectUuid[p], ie)
       /\ UNCHANGED result

\* faulty variant: the continue after a failed insert is missing
AfterInsertNoContinue(p, ie) ==
  /\ SetLocals(p, "mark", windows[p], idx[p], 1, sessionsCreated[p],
               transcriptsProcessed[p],
               IF ie # "none" /\ ie # "duplicate key" THEN errors[p] + 1 ELSE errors[p],
               resolvedProjectUuid[p], ie)
  /\ UNCHANGED result

\* the insert has answered with error ie ("none" for no error)
AfterInsert(p, ie) ==
  IF ie # "none" /\ ie # "duplicate key"
  THEN ContinueAt(p, windows[p], idx[p] + 1, sessionsCreated[p], transcriptsProcessed[p],
                  errors[p] + 1)
  ELSE /\ SetLocals(p, "mark", windows[p], idx[p], 1, sessionsCreated[p],
                    transcriptsProcessed[p], errors[p], resolvedProjectUuid[p], ie)
       /\ UNCHANGED result

\* the first project lookup has answered with id uuid (<<>> for none)
AfterLookupProject(p, uuid) ==
  /\ SetLocals(p, IF uuid = <<>> THEN "lookup_unassigned" ELSE "insert", windows[p], idx[p],
               0, sessionsCreated[p], transcriptsProcessed[p], errors[p], uuid, "none")
  /\ UNCHANGED result

\* the lookup of "unassigned" has answered
AfterLookupUnassigned(p, uuid) ==
  /\ SetLocals(p, "insert", windows[p], idx[p], 0, sessionsCreated[p],
               transcriptsProcessed[p], errors[p], uuid, "none")
  /\ UNCHANGED result

------------------------------------------------------------------------------
(* Actions *)

\* the upstream producer writes a raw record (processed: false)
Arrive(i) ==
  /\ i \in Ids \ DOMAIN raw
  /\ raw' = [j \in DOMAIN raw \cup {i} |-> IF j = i THEN CandidateRecords[i] ELSE raw[j]]
  /\ UNCHANGED <<sessions, pc, windows, idx, markIdx, sessionsCreated, transcriptsProcessed,
                 errors, resolvedProjectUuid, insertError, result>>
  /\ UNCHANGED callVars

\* a pass starts and its fetch answers with records: group them, enter the loop
FetchOk(p) ==
  /\ pc[p] = "idle"
  /\ \E transcripts \in FetchData(raw) :
       /\ Len(transcripts) > 0
       /\ ContinueAt(p, groupByTimeWindow(transcripts), 1, 0, 0, 0)
  /\ UNCHANGED <<raw, sessions>>
  /\ UNCHANGED callVars

\* the fetch answers with no records
FetchEmpty(p) ==
  /\ pc[p] = "idle"
  /\ <<>> \in FetchData(raw)
  /\ Return(p, [processed |-> 0, errors |-> 0, sessions |-> 0])
  /\ UNCHANGED <<raw, sessions>>
  /\ UNCHANGED callVars

\* the fetch answers with an error
FetchError(p) ==
  /\ pc[p] = "idle"
  /\ ReturnFetchError(p)
  /\ UNCHANGED <<raw, sessions>>
  /\ UNCHANGED callVars

\* the fetch throws: the outer catch
FetchThrow(p) ==
  /\ pc[p] = "idle"
  /\ CatchProcessing(p)
  /\ UNCHANGED <<raw, sessions>>
  /\ UNCHANGED callVars

\* the lookup of the resolved slug answers (no row: an error, no id)
LookupProjectOk(p) ==
  /\ pc[p] = "lookup_project"
  /\ AfterLookupProject(p, ProjectLookup(Resolved(windows[p][idx[p]]).slug))
  /\ UNCHANGED <<raw, sessions>>
  /\ UNCHANGED callVars

LookupProjectError(p) ==
  /\ pc[p] = "lookup_project"
  /\ AfterLookupProject(p, <<>>)
  /\ UNCHANGED <<raw, sessions>>
  /\ UNCHANGED callVars

LookupProjectThrow(p) ==
  /\ pc[p] = "lookup_project"
  /\ CatchWindow(p)
  /\ UNCHANGED <<raw, sessions>>
  /\ UNCHANGED callVars

\* the lookup of slug "unassigned" answers
LookupUnassignedOk(p) ==
  /\ pc[p] = "lookup_unassigned"
  /\ AfterLookupUnassigned(p, ProjectLookup(T_unassigned))
  /\ UNCHANGED <<raw, sessions>>
  /\ UNCHANGED callVars

LookupUnassignedError(p) ==
  /\ pc[p] = "lookup_unassigned"
  /\ AfterLookupUnassigned(p, <<>>)
  /\ UNCHANGED <<raw, sessions>>
  /\ UNCHANGED callVars

LookupUnassignedThrow(p) ==
  /\ pc[p] = "lookup_unassigned"
  /\ CatchWindow(p)
  /\ UNCHANGED <<raw, sessions>>
  /\ UNCHANGED callVars

\* the store accepts the row
InsertOk(p) ==
  /\ pc[p] = "insert"
  /\ ~ KeyExists(sessions, SessionRow(windows[p][idx[p]], resolvedProjectUuid[p]))
  /\ sessions' = Append(sessions, SessionRow(windows[p][idx[p]], resolvedProjectUuid[p]))
  /\ AfterInsert(p, "none")
  /\ UNCHANGED raw
  /\ UNCHANGED callVars

\* the store refuses the row: its key is taken
InsertDuplicate(p) ==
  /\ pc[p] = "insert"
  /\ KeyExists(sessions, SessionRow(windows[p][idx[p]], resolvedProjectUuid[p]))
  /\ AfterInsert(p, "duplicate key")
  /\ UNCHANGED <<raw, sessions>>
  /\ UNCHANGED callVars

\* the store answers with any other error
InsertError(p) ==
  /\ pc[p] = "insert"
  /\ AfterInsert(p, "other")
  /\ UNCHANGED <<raw, sessions>>
  /\ UNCHANGED callVars

InsertThrow(p) ==
  /\ pc[p] = "insert"
  /\ CatchWindow(p)
  /\ UNCHANGED <<raw, sessions>>
  /\ UNCHANGED callVars

InMarks(p) == pc[p] \in {"mark_short", "mark"}

\* the id markTranscriptsProcessed is updating
CurrentId(p) == windows[p][idx[p]].transcripts[markIdx[p]].id

\* faulty variant: the update lacks .eq('id', id) and marks every record
UpdateOkEveryRecord(p) ==
  /\ InMarks(p)
  /\ raw' = [i \in DOMAIN raw |-> [raw[i] EXCEPT !.processed = TRUE]]
  /\ AfterUpdate(p)
  /\ UNCHANGED sessions
  /\ UNCHANGED callVars

\* .update({ processed: true }).eq('id', id) succeeds
UpdateOk(p) ==
  /\ InMarks(p)
  /\ raw' = [raw EXCEPT ![CurrentId(p)].processed = TRUE]
  /\ AfterUpdate(p)
  /\ UNCHANGED sessions
  /\ UNCHANGED callVars

\* the update answers with an error, which nothing reads
UpdateError(p) ==
  /\ InMarks(p)
  /\ AfterUpdate(p)
  /\ UNCHANGED <<raw, sessions>>
  /\ UNCHANGED callVars

\* the update throws out of markTranscriptsProcessed into the window's catch
UpdateThrow(p) ==
  /\ InMarks(p)
  /\ CatchWindow(p)
  /\ UNCHANGED <<raw, sessions>>
  /\ UNCHANGED callVars

\* the caller has the summary (res.json(result); the timer drops it)
Respond(p) ==
  /\ pc[p] = "done"
  /\ pc' = [pc EXCEPT ![p] = "idle"]
  /\ result' = [result EXCEPT ![p] = NoResult]
  /\ UNCHANGED <<raw, sessions, windows, idx, markIdx, sessionsCreated,
                 transcriptsProcessed, errors, resolvedProjectUuid, insertError>>
  /\ UNCHANGED callVars

Fetch(p) == FetchOk(p) \/ FetchEmpty(p) \/ FetchError(p) \/ FetchThrow(p)

Lookup(p) ==
  \/ LookupProjectOk(p) \/ LookupProjectError(p) \/ LookupProjectThrow(p)
  \/ LookupUnassignedOk(p) \/ LookupUnassignedError(p) \/ LookupUnassignedThrow(p)

Insert(p) == InsertOk(p) \/ InsertDuplicate(p) \/ InsertError(p) \/ InsertThrow(p)

Update(p) == UpdateOk(p) \/ UpdateError(p) \/ UpdateThrow(p)

\* one step of pass p
PassStep(p) == Fetch(p) \/ Lookup(p) \/ Insert(p) \/ Update(p)

Next ==
  \/ \E i \in Ids : Arrive(i)
  \/ \E p \in Passes : FetchOk(p)
  \/ \E p \in Passes : FetchEmpty(p)
  \/ \E p \in Passes : FetchError(p)
  \/ \E p \in Passes : FetchThrow(p)
  \/ \E p \in Passes : LookupProjectOk(p)
  \/ \E p \in Passes : LookupProjectError(p)
  \/ \E p \in Passes : LookupProjectThrow(p)
  \/ \E p \in Passes : LookupUnassignedOk(p)
  \/ \E p \in Passes : LookupUnassignedError(p)
  \/ \E p \in Passes : LookupUnassignedThrow(p)
  \/ \E p \in Passes : InsertOk(p)
  \/ \E p \in Passes : InsertDuplicate(p)
  \/ \E p \in Passes : InsertError(p)
  \/ \E p \in Passes : InsertThrow(p)
  \/ \E p \in Passes : UpdateOk(p)
  \/ \E p \in Passes : UpdateError(p)
  \/ \E p \in Passes : UpdateThrow(p)
  \/ \E p \in Passes : Respond(p)

Spec == Init /\ [][Next]_vars

------------------------------------------------------------------------------
(* What a step of pass p leaves in its counters: the locals, or the summary  *)
(* when the step ends the pass                                               *)

ErrorsAfter(p) == IF pc'[p] = "done" THEN result'[p].errors ELSE errors'[p]
ProcessedAfter(p) == IF pc'[p] = "done" THEN result'[p].processed ELSE transcriptsProcessed'[p]
\* (-1 for a summary that has no sessions field)
SessionsAfter(p) ==
  IF pc'[p] = "done"
  THEN IF "sessions" \in DOMAIN result'[p] THEN result'[p].sessions ELSE -1
  ELSE sessionsCreated'[p]

\* the window pass p is handling, and its members
CurrentWindow(p) == windows[p][idx[p]]
MemberCount(p) == Len(CurrentWindow(p).transcripts)

\* the step takes pass p to the window after the current one (or to its return)
MovesToNextWindow(p) ==
  IF idx[p] < Len(windows[p])
  THEN /\ idx'[p] = idx[p] + 1
       /\ windows'[p] = windows[p]
       /\ pc'[p] \in {"mark_short", "lookup_project"}
  ELSE pc'[p] = "done"

\* the step changes the await pass p is suspended at (every step of a pass does,
\* and no step of another pass or of the producer)
Moved(p) == <<pc'[p], idx'[p], markIdx'[p]>> # <<pc[p], idx[p], markIdx[p]>>

\* the key columns of a session row
RowWindowKey(row) == <<row.source_type, row.source_name, row.team_port, row.started_at>>

------------------------------------------------------------------------------
(* C1 *)

------------------------------------------------------------------------------
(* C2 *)

Quiescent == \A p \in Passes : pc[p] = "idle"

RECURSIVE SumLengths(_)
SumLengths(S) ==
  IF S = {} THEN 0
  ELSE LET i == CHOOSE x \in S : TRUE
       IN TextLen(raw[i].content) + 1 + SumLengths(S \ {i})

\* the length of the content of all the records written so far to i's window
WindowTotal(i) ==
  SumLengths({j \in DOMAIN raw : WindowKey(raw[j]) = WindowKey(raw[i])})

RowsContaining(i) ==
  {k \in 1..Len(sessions) : Includes(sessions[k].raw_content, raw[i].content)}

\* C2: once the passes have ended, every record that is marked processed and
\* whose window holds at least 100 characters has its content in exactly one
\* session row.
C2_NoContentLostOrDuplicated ==
  (Quiescent /\ \A j \in DOMAIN raw : raw[j].processed) =>
    \A i \in DOMAIN raw :
      (raw[i].processed /\ WindowTotal(i) >= MIN_CONTENT_LENGTH)
        => Cardinality(RowsContaining(i)) = 1

------------------------------------------------------------------------------
(* C3 *)

InDuplicateWindow(p) == pc[p] = "mark" /\ insertError[p] = "duplicate key"

\* C3: a duplicate-key answer to the insert is treated as success: no error is
\* counted, the pass goes on to mark the window's members from the first one,
\* each update that succeeds sets the member's processed flag, and when the
\* last update has answered the members are added to the processed total with
\* the error count unchanged.
C3_DuplicateKeyIsSuccess ==
  [][\A p \in Passes :
       /\ (Moved(p) /\ InsertDuplicate(p)) =>
            /\ errors'[p] = errors[p]
            /\ pc'[p] = "mark"
            /\ idx'[p] = idx[p]
            /\ markIdx'[p] = 1
            /\ transcriptsProcessed'[p] = transcriptsProcessed[p]
       /\ (InDuplicateWindow(p) /\ Moved(p) /\ UpdateOk(p)) => raw'[CurrentId(p)].processed
       /\ (InDuplicateWindow(p) /\ Moved(p) /\ (UpdateOk(p) \/ UpdateError(p))) =>
            IF markIdx[p] < MemberCount(p)
            THEN /\ markIdx'[p] = markIdx[p] + 1
                 /\ pc'[p] = "mark"
                 /\ idx'[p] = idx[p]
                 /\ errors'[p] = errors[p]
            ELSE /\ ProcessedAfter(p) = transcriptsProcessed[p] + MemberCount(p)
                 /\ ErrorsAfter(p) = errors[p]
                 /\ MovesToNextWindow(p)]_vars

\* a pass ended whose only window got the duplicate-key answer: its members are
\* processed and counted, and no error is
C3_Witness ==
  \E p, q \in Passes :
    /\ p # q
    /\ pc[p] = "done" /\ pc[q] = "done"
    /\ result[p] = [processed |-> 2, sessions |-> 1, errors |-> 0]
    /\ result[q] = [processed |-> 2, sessions |-> 1, errors |-> 0]
    /\ Len(sessions) = 1

------------------------------------------------------------------------------
(* C4 *)

\* C4: when the insert fails with an error that is not duplicate-key (answered
\* or thrown), the step counts one error, adds no session row, marks no record,
\* counts nothing as processed or created, and takes the pass to the next
\* window, never into the mark step.
C4_InsertFailureLeavesRecords ==
  [][\A p \in Passes :
       (InsertError(p) \/ InsertThrow(p)) =>
         /\ ErrorsAfter(p) = errors[p] + 1
         /\ ProcessedAfter(p) = transcriptsProcessed[p]
         /\ SessionsAfter(p) = sessionsCreated[p]
         /\ sessions' = sessions
         /\ raw' = raw
         /\ MovesToNextWindow(p)]_vars

\* a pass is past a first window that is not short, with one error, while the
\* window's record is unprocessed and has no row
C4_Witness ==
  \E p \in Passes :
    /\ pc[p] \in {"mark_short", "lookup_project"}
    /\ idx[p] = 2
    /\ errors[p] = 1
    /\ ~ IsShort(windows[p][1])
    /\ \A k \in 1..Len(windows[p][1].transcripts) :
         ~ raw[windows[p][1].transcripts[k].id].processed
    /\ sessions = <<>>

------------------------------------------------------------------------------
(* C5 *)

\* the length test of the filter, on the window's content
UnderMinimum(win) == TextLen(win.content) < MIN_CONTENT_LENGTH

\* C5: a window whose content is shorter than 100 characters never reaches the
\* project lookups or the insert, and a longer one never the short window's
\* marks; while the short window is handled no session row is added, each
\* update that succeeds sets the member's processed flag, and when the last
\* update has answered the members are added to the processed total, with no
\* session and no error counted.
C5_ShortWindowMarkedNotPersisted ==
  /\ [](\A p \in Passes :
          /\ pc[p] \in {"lookup_project", "lookup_unassigned", "insert", "mark"}
               => ~ UnderMinimum(CurrentWindow(p))
          /\ pc[p] = "mark_short" => UnderMinimum(CurrentWindow(p)))
  /\ [][\A p \in Passes :
          (pc[p] = "mark_short" /\ (UpdateOk(p) \/ UpdateError(p))) =>
            /\ sessions' = sessions
            /\ UpdateOk(p) => raw'[CurrentId(p)].processed
            /\ IF markIdx[p] < MemberCount(p)
               THEN /\ markIdx'[p] = markIdx[p] + 1
                    /\ pc'[p] = "mark_short"
                    /\ idx'[p] = idx[p]
                    /\ errors'[p] = errors[p]
               ELSE /\ ProcessedAfter(p) = transcriptsProcessed[p] + MemberCount(p)
                    /\ SessionsAfter(p) = sessionsCreated[p]
                    /\ ErrorsAfter(p) = errors[p]
                    /\ MovesToNextWindow(p)]_vars

\* a pass ended that had one short window of one record: the record is
\* processed and counted, and there is no session
C5_Witness ==
  \E p \in Passes :
    /\ pc[p] = "done"
    /\ result[p] = [processed |-> 1, sessions |-> 0, errors |-> 0]
    /\ sessions = <<>>
    /\ \E i \in DOMAIN raw : raw[i].processed

------------------------------------------------------------------------------
(* C6 *)

\* C6: a failed update of the mark step, answered or thrown, changes no record,
\* counts no error and leaves the rest as it would have been: the next member
\* of the window is updated next, and after the last one the window is counted
\* and the pass goes on.
C6_MarkFailureTolerated ==
  [][\A p \in Passes :
       (UpdateError(p) \/ UpdateThrow(p)) =>
         /\ raw' = raw
         /\ ErrorsAfter(p) = errors[p]
         /\ IF markIdx[p] < MemberCount(p)
            THEN /\ markIdx'[p] = markIdx[p] + 1
                 /\ pc'[p] = pc[p]
                 /\ idx'[p] = idx[p]
            ELSE MovesToNextWindow(p)]_vars

------------------------------------------------------------------------------
(* C8 *)

Running(p) == pc[p] \notin {"idle", "done"}

\* a store operation of the window's try block throws
WindowThrow(p) ==
  \/ LookupProjectThrow(p) \/ LookupUnassignedThrow(p) \/ InsertThrow(p) \/ UpdateThrow(p)

\* an upper bound of the awaits a pass still has before it returns
RankOf(pcv, wins, i, m) ==
  IF pcv = "done" THEN 0
  ELSE (Len(wins) - i) * (FETCH_LIMIT + 4)
         + CASE pcv = "lookup_project" -> Len(wins[i].transcripts) + 3
             [] pcv = "lookup_unassigned" -> Len(wins[i].transcripts) + 2
             [] pcv = "insert" -> Len(wins[i].transcripts) + 1
             [] pcv \in {"mark", "mark_short"} -> Len(wins[i].transcripts) - m + 1

\* C8: a pass always ends with a summary: while it runs it waits for a store
\* operation on a window of its batch (on a member of it, in the mark step);
\* every step but the arrival of a record moves a pass, and every move of a
\* running pass, whatever the answer, brings it closer to its return; a pass that
\* has returned holds a summary; and a store operation that throws while a window is
\* handled, or an insert answered with an error other than duplicate-key, counts
\* exactly one error, keeps the other totals and takes the pass to the next
\* window.
C8_PassAlwaysReturnsSummary ==
  /\ [](\A p \in Passes :
          /\ Running(p) =>
               /\ idx[p] \in 1..Len(windows[p])
               /\ InMarks(p) => markIdx[p] \in 1..MemberCount(p)
          /\ pc[p] = "done" =>
               /\ result[p] # NoResult
               /\ result[p].processed >= 0
               /\ result[p].errors >= 0)
  /\ [][/\ (\A p \in Passes : ~ Moved(p)) => \E i \in Ids : Arrive(i)
       /\ \A p \in Passes :
          /\ (Running(p) /\ Moved(p)) =>
               /\ pc'[p] # "idle"
               /\ RankOf(pc'[p], windows'[p], idx'[p], markIdx'[p])
                    < RankOf(pc[p], windows[p], idx[p], markIdx[p])
          /\ (pc[p] = "idle" /\ Moved(p)) =>
               pc'[p] \in {"done", "mark_short", "lookup_project"}
          /\ (Moved(p) /\ (WindowThrow(p) \/ InsertError(p))) =>
               /\ ErrorsAfter(p) = errors[p] + 1
               /\ ProcessedAfter(p) = transcriptsProcessed[p]
               /\ SessionsAfter(p) = sessionsCreated[p]
               /\ MovesToNextWindow(p)]_vars

\* a pass ended its two windows: the first failed and was counted as one error,
\* the second was handled all the same
C8_Witness ==
  \E p \in Passes :
    /\ pc[p] = "done"
    /\ result[p] = [processed |-> 1, sessions |-> 0, errors |-> 1]
    /\ sessions = <<>>
    /\ \E i, j \in DOMAIN raw : ~ raw[i].processed /\ raw[j].processed

------------------------------------------------------------------------------
(* C9 *)

\* C9: when the fetch answers with an error or throws, the pass ends with the
\* summary processed 0, errors 1, and neither table changes.
C9_FetchFailureSummary ==
  [][\A p \in Passes :
       (FetchError(p) \/ FetchThrow(p)) =>
         /\ pc'[p] = "done"
         /\ result'[p].processed = 0
         /\ result'[p].errors = 1
         /\ sessions' = sessions
         /\ raw' = raw]_vars

\* a pass ended on a failed fetch while an unprocessed record was waiting
C9_Witness ==
  \E p \in Passes :
    /\ pc[p] = "done"
    /\ result[p] = [processed |-> 0, errors |-> 1]
    /\ \E i \in DOMAIN raw : ~ raw[i].processed

------------------------------------------------------------------------------
(* C10 *)

\* C10: a record is counted in the processed total of one pass only, so the
\* totals of two summaries held at the same time never add up to more than the
\* records there are.
C10_CountedInOnePass ==
  \A p, q \in Passes :
    (p # q /\ pc[p] = "done" /\ pc[q] = "done")
      => result[p].processed + result[q].processed <= Cardinality(DOMAIN raw)

------------------------------------------------------------------------------
(* C7 *)

\* Passes keep being run (setInterval, /process) and every await is answered:
\* weak fairness of both, that of PassStep(p) with ENABLED written out (a step
\* of pass p is possible unless its summary waits for Respond(p)).
Fairness ==
  \A p \in Passes :
    /\ []<>(pc[p] = "done") \/ []<><<Moved(p) /\ PassStep(p)>>_vars
    /\ WF_vars(Respond(p))

FairSpec == Init /\ [][Next]_vars /\ Fairness

\* a store operation of pass p answers with an error or throws
Failing(p) ==
  \/ FetchError(p) \/ FetchThrow(p)
  \/ LookupProjectError(p) \/ LookupProjectThrow(p)
  \/ LookupUnassignedError(p) \/ LookupUnassignedThrow(p)
  \/ InsertError(p) \/ InsertThrow(p)
  \/ UpdateError(p) \/ UpdateThrow(p)

Succeeding(p) ==
  \/ FetchOk(p) \/ FetchEmpty(p)
  \/ LookupProjectOk(p) \/ LookupUnassignedOk(p)
  \/ InsertOk(p) \/ InsertDuplicate(p)
  \/ UpdateOk(p)

\* a step in which a failure made a difference
StoreFailure == \E p \in Passes : Moved(p) /\ Failing(p) /\ ~ Succeeding(p)

\* record i is written and not marked processed
LeftBehind(i) == i \in DOMAIN raw /\ ~ raw[i].processed

Marked(i) == i \in DOMAIN raw /\ raw[i].processed

------------------------------------------------------------------------------
(* Calls of the identity resolver on its own: extractCwdFromContent,          *)
(* parseRoutingFromCwd and resolveProjectSlug applied to a window and a cwd   *)

\* cwd arguments
P_token6 == <<"/", "s", "r", "v", "/", "f", "o", "o", "-", "0", "4", "5", "0", "0", "1">>
P_token3 == <<"/", "s", "r", "v", "/", "f", "o", "o", "-", "1", "2", "3">>
P_token7 == <<"/", "s", "r", "v", "/", "f", "o", "o", "-", "1", "2", "3", "4", "5", "6", "7">>
P_port4500 == <<"/", "s", "r", "v", "/", "f", "o", "o", "-", "4", "5", "0", "0">>
P_port3999 == <<"/", "s", "r", "v", "/", "f", "o", "o", "-", "3", "9", "9", "9">>
P_port10000 == <<"/", "s", "r", "v", "/", "f", "o", "o", "-", "1", "0", "0", "0", "0">>
P_port04500 == <<"/", "s", "r", "v", "/", "f", "o", "o", "-", "0", "4", "5", "0", "0">>
P_studioWww == <<"/", "x", "/", "s", "t", "u", "d", "i", "o", "/", "w", "w", "w">>
P_projectsTerminal ==
  <<"/", "p", "r", "o", "j", "e", "c", "t", "s", "/", "t", "e", "r", "m", "i", "n", "a",
    "l">>
P_home ==
  <<"/", "h", "o", "m", "e", "/", "a", "/", "p", "r", "o", "j", "e", "c", "t", "s", "/",
    "f", "o", "o">>
P_rootEnd ==
  <<"/", "s", "r", "v", "/", "a", "i", "-", "j", "e", "n", "-", "5", "4", "0", "2", "/",
    "r", "o", "o", "t">>
P_users ==
  <<"C", ":", "\\", "U", "s", "e", "r", "s", "\\", "a", "\\", "p", "r", "o", "j", "e", "c",
    "t", "s", "\\", "f", "o", "o">>
P_chadWork ==
  <<"/", "s", "r", "v", "/", "a", "i", "-", "c", "h", "a", "d", "-", "5", "4", "0", "1",
    "/", "w", "o", "r", "k">>

CwdInputs ==
  {<<>>, P_token6, P_token3, P_token7, P_port4500, P_port3999, P_port10000, P_port04500,
   P_studioWww, P_projectsTerminal, P_home, P_rootEnd, P_users, P_chadWork}

\* window contents: 120 characters of text, then what the name says
K_plain == <<"~120">>
K_cwdChad ==
  <<"~120">> \o <<"\"", "c", "w", "d", "\"", ":", " ", "\"", "/", "s", "r", "v", "/", "a",
    "i", "-", "c", "h", "a", "d", "-", "5", "4", "0", "1", "/", "w", "o", "r", "k", "\"">>
K_cwdUsers ==
  <<"~120">> \o <<"\"", "c", "w", "d", "\"", ":", "\"", "C", ":", "\\", "\\", "U", "s",
    "e", "r", "s", "\\", "\\", "a", "\\", "\\", "p", "r", "o", "j", "e", "c", "t", "s",
    "\\", "\\", "f", "o", "o", "\"">>
K_cwdHome ==
  <<"~120">> \o <<"\"", "c", "w", "d", "\"", ":", "\"", "/", "h", "o", "m", "e", "/", "a",
    "/", "p", "r", "o", "j", "e", "c", "t", "s", "/", "f", "o", "o", "\"">>
K_cwdStudio ==
  <<"~120">> \o <<"\"", "c", "w", "d", "\"", ":", "\"", "/", "x", "/", "s", "t", "u", "d",
    "i", "o", "/", "w", "w", "w", "\"">>
K_sniff ==
  <<"~120">> \o <<"n", "e", "x", "t", "b", "i", "d", " ", "a", "i", "-", "j", "e", "n">>
K_twoCwds ==
  <<"~120">> \o <<"\"", "c", "w", "d", "\"", ":", "\"", "/", "h", "o", "m", "e", "/", "a",
    "\"", " ", "\"", "c", "w", "d", "\"", ":", "\"", "/", "s", "r", "v", "/", "f", "o",
    "o", "-", "4", "5", "0", "0", "\"">>

ContentInputs ==
  {K_plain, K_cwdChad, K_cwdUsers, K_cwdHome, K_cwdStudio, K_sniff, K_twoCwds}

T_myproj == <<"m", "y", "p", "r", "o", "j">>

\* caller-supplied slugs: none, low-trust ones, one of SLUG_PORT_MAP, another
SlugInputs == {<<>>, T_terminal, T_www, T_unassigned, T_ai_chad, T_myproj}

\* the windows groupByTimeWindow may hand to the resolver
WindowInputs ==
  {[windowStart |-> 0, source_type |-> T_transcript, session_file |-> T_s1,
    project_folder |-> <<>>, project_slug |-> slug, team_port |-> port,
    transcripts |-> <<>>, content |-> content, earliest_ts |-> 0, latest_ts |-> 0] :
     slug \in SlugInputs, port \in {0, 5400}, content \in ContentInputs}

\* a result that has not been computed yet
Pending == [pending |-> TRUE]

\* the resolver is about to be called on a window; the cwd is an argument, or
\* will be extracted from the window's content as processTranscripts does
ResolverInit ==
  /\ PassInit
  /\ grouping = NoCall
  /\ \E win \in WindowInputs, cwd \in CwdInputs :
       resolution = [win |-> win, cwd |-> cwd, extracted |-> FALSE,
                     routing |-> Pending, resolved |-> Pending]

\* const cwd = extractCwdFromContent(content)
ExtractCwd ==
  /\ ~ resolution.extracted
  /\ resolution.routing = Pending
  /\ resolution.resolved = Pending
  /\ resolution' = [resolution EXCEPT !.cwd = extractCwdFromContent(resolution.win.content),
                                      !.extracted = TRUE]
  /\ UNCHANGED <<passVars, grouping>>

\* const routing = parseRoutingFromCwd(cwd)
ParseRouting ==
  /\ resolution.routing = Pending
  /\ resolution' = [resolution EXCEPT !.routing = parseRoutingFromCwd(resolution.cwd)]
  /\ UNCHANGED <<passVars, grouping>>

\* const resolved = resolveProjectSlug(window, cwd)
ResolveSlug ==
  /\ resolution.resolved = Pending
  /\ resolution' = [resolution EXCEPT
                      !.resolved = resolveProjectSlug(resolution.win, resolution.cwd)]
  /\ UNCHANGED <<passVars, grouping>>

ResolverNext == ExtractCwd \/ ParseRouting \/ ResolveSlug

ResolverSpec == ResolverInit /\ [][ResolverNext]_vars

\* the call has returned an identity
HasResolved == resolution # NoCall /\ resolution.resolved # Pending

HasRouting == resolution # NoCall /\ resolution.routing # Pending

------------------------------------------------------------------------------
(* C11 *)

\* C11: when the window's own slug is low-trust, the resolver does not take the
\* trusted-label step, an identity found by the path or the content step never
\* has that slug, and an identity found by neither has the slug "unassigned".
C11_LowTrustNeverChosen ==
  HasResolved =>
    LET win == resolution.win
        resolved == resolution.resolved
    IN win.project_slug \in LOW_TRUST_SLUGS =>
         /\ resolved.reason.kind # "transcript"
         /\ resolved.reason.kind \in {"cwd", "content"} => resolved.slug # win.project_slug
         /\ resolved.reason.kind \notin {"cwd", "content"} => resolved.slug = T_unassigned

------------------------------------------------------------------------------
(* C12 *)

\* the cwd as the content spells it: the capture of the last "cwd" field, before
\* extractCwdFromContent rewrites its separators
CapturedCwd(content) == LastCwdMatch(content, 1, [found |-> FALSE, value |-> <<>>]).value

\* C12: when the cwd of the window's content is a home path, as the content
\* spells it or as it is extracted, the identity resolved for the window is not
\* path-derived.
C12_HomePathNeverRoutes ==
  (/\ HasResolved
   /\ resolution.extracted
   /\ isHomePath(CapturedCwd(resolution.win.content)) \/ isHomePath(resolution.cwd))
    => resolution.resolved.reason.kind # "cwd"

------------------------------------------------------------------------------
(* C13 *)

\* the window carries a caller-supplied slug that is not low-trust
Trusted(win) == win.project_slug # <<>> /\ win.project_slug \notin LOW_TRUST_SLUGS

\* what the Path Router yields for a cwd that is there and is no home path
PathIdentity(cwd) ==
  IF cwd # <<>> /\ ~ isHomePath(cwd) THEN parseRoutingFromCwd(cwd) ELSE NoRouting

\* the first pattern of the Content Sniffer found in the haystack, 0 for none
FirstPattern(win) ==
  LET found == {i \in 1..Len(patterns) : Includes(Haystack(win), patterns[i].match)}
  IN IF found = {} THEN 0 ELSE CHOOSE i \in found : \A j \in found : i <= j

\* C13: the identity is that of the highest step of the cascade that yields a
\* slug: the normalized trusted label with the window's port; else the Path
\* Router's slug and port for a cwd that is no home path; else the slug of the
\* first Content Sniffer pattern found, without port; else "unassigned"
\* without port.
C13_PriorityCascade ==
  HasResolved =>
    LET win == resolution.win
        resolved == resolution.resolved
        path == PathIdentity(resolution.cwd)
        pat == FirstPattern(win)
    IN /\ Trusted(win) =>
            /\ resolved.reason.kind = "transcript"
            /\ resolved.slug = normalizeSlug(win.project_slug)
            /\ resolved.port = win.team_port
       /\ (~ Trusted(win) /\ path.project_slug # <<>>) =>
            /\ resolved.reason.kind = "cwd"
            /\ resolved.slug = path.project_slug
            /\ resolved.port = path.team_port
       /\ (~ Trusted(win) /\ path.project_slug = <<>> /\ pat # 0) =>
            /\ resolved.reason = [kind |-> "content", match |-> patterns[pat].match]
            /\ resolved.slug = patterns[pat].slug
            /\ resolved.port = 0
       /\ (~ Trusted(win) /\ path.project_slug = <<>> /\ pat = 0) =>
            /\ resolved.reason.kind = "no_match"
            /\ resolved.slug = T_unassigned
            /\ resolved.port = 0

\* a window without slug whose content names the cwd /srv/ai-chad-5401/work (and
\* so holds the sniffer's pattern "ai-chad" too) is resolved from the path:
\* slug ai-chad-5401, port 5401
C13_Witness ==
  /\ HasResolved
  /\ resolution.extracted
  /\ resolution.win.project_slug = <<>>
  /\ resolution.win.content = K_cwdChad
  /\ resolution.cwd = P_chadWork
  /\ FirstPattern(resolution.win) # 0
  /\ resolution.resolved =
       [slug |-> T_ai_chad \o <<"-", "5", "4", "0", "1">>,
        reason |-> [kind |-> "cwd", match |-> <<>>],
        port |-> 5401]

------------------------------------------------------------------------------
(* C14 *)

\* the number of digits of s from index i on
RECURSIVE DigitRun(_, _)
DigitRun(s, i) == IF i <= Len(s) /\ IsDigit(s[i]) THEN 1 + DigitRun(s, i + 1) ELSE 0

\* the lengths of the numeric tokens of s that follow a hyphen
HyphenTokenLengths(s) ==
  {DigitRun(s, i) : i \in {j \in 2..Len(s) : s[j - 1] = "-" /\ IsDigit(s[j])}}

\* C14: a port the Path Router returns is in 4000..9999, and a path whose
\* hyphen-preceded numeric tokens all have 3 digits or 6 and more yields no
\* port and no slug.
C14_PortOnlyFromFourOrFiveDigits ==
  HasRouting =>
    LET routing == resolution.routing
        lengths == HyphenTokenLengths(resolution.cwd)
    IN /\ routing.team_port # 0 => routing.team_port \in PORT_MIN..PORT_MAX
       /\ (lengths # {} /\ \A n \in lengths : n = 3 \/ n >= 6) =>
            /\ routing.team_port = 0
            /\ routing.project_slug = <<>>

------------------------------------------------------------------------------
(* C16 *)

\* C16: every call of the resolver returns an identity with a slug, found by
\* exactly one of the four steps; the identity no step but the last finds has
\* the slug "unassigned"; and the row the pass builds for the window carries
\* that slug.
C16_ResolutionNeverFails ==
  HasResolved =>
    LET resolved == resolution.resolved
    IN /\ resolved.slug # <<>>
       /\ resolved.reason.kind \in {"transcript", "cwd", "content", "no_match"}
       /\ resolved.reason.kind = "no_match" => resolved.slug = T_unassigned
       /\ resolution.extracted =>
            /\ SessionRow(resolution.win, <<>>).project_slug = resolved.slug
            /\ SessionRow(resolution.win, <<>>).project_slug # <<>>

\* a window with a low-trust slug, no cwd in its content and no pattern in it
\* has been resolved to "unassigned"
C16_Witness ==
  /\ HasResolved
  /\ resolution.extracted
  /\ resolution.win.project_slug = T_terminal
  /\ resolution.win.content = K_plain
  /\ resolution.resolved.reason.kind = "no_match"
  /\ resolution.resolved.slug = T_unassigned

------------------------------------------------------------------------------
(* Calls of groupByTimeWindow on batches in every order *)

\* the longest batch looked at
MaxBatch == 3

\* Raw records a batch is drawn from.  1 and 2 belong to one session file and
\* one window, 1 carries a project slug and a folder, 2 none and neither a
\* source type nor an original timestamp; 3 and 4 differ in source type and
\* session file, each with a colon in one of them; 5 is 1's session on another
\* port at the last millisecond of the window; 6 opens the next window.
GroupRecords ==
  {[id |-> 1, source_type |-> T_transcript, session_file |-> T_s1,
    project_slug |-> T_ai_chad, project_folder |-> <<"/", "w">>, team_port |-> 0,
    content |-> <<"A">>, original_timestamp |-> 1800000, received_at |-> 9000000,
    processed |-> FALSE],
   [id |-> 2, source_type |-> <<>>, session_file |-> T_s1,
    project_slug |-> <<>>, project_folder |-> <<>>, team_port |-> 0,
    content |-> <<"B">>, original_timestamp |-> NO_TIMESTAMP, received_at |-> 2400000,
    processed |-> FALSE],
   [id |-> 3, source_type |-> <<"a">>, session_file |-> <<"b", ":", "c">>,
    project_slug |-> <<>>, project_folder |-> <<>>, team_port |-> 0,
    content |-> <<"C">>, original_timestamp |-> 5400000, received_at |-> 5400000,
    processed |-> FALSE],
   [id |-> 4, source_type |-> <<"a", ":", "b">>, session_file |-> <<"c">>,
    project_slug |-> <<>>, project_folder |-> <<>>, team_port |-> 0,
    content |-> <<"D">>, original_timestamp |-> 5400100, received_at |-> 5400100,
    processed |-> FALSE],
   [id |-> 5, source_type |-> T_transcript, session_file |-> T_s1,
    project_slug |-> T_ai_chad, project_folder |-> <<"/", "w">>, team_port |-> 5400,
    content |-> <<"E">>, original_timestamp |-> 3599999, received_at |-> 3599999,
    processed |-> FALSE],
   [id |-> 6, source_type |-> T_transcript, session_file |-> T_s1,
    project_slug |-> T_ai_chad, project_folder |-> <<"/", "w">>, team_port |-> 0,
    content |-> <<"F">>, original_timestamp |-> 3600000, received_at |-> 3600000,
    processed |-> FALSE]}

\* the batches: sequences of distinct records, of length up to MaxBatch
Batches ==
  UNION {{b \in [1..n -> GroupRecords] :
            \A i, j \in 1..n : i # j => b[i].id # b[j].id} : n \in 0..MaxBatch}

\* the batch with the records at i and i + 1 exchanged
SwapAt(b, i) ==
  [k \in 1..Len(b) |-> IF k = i THEN b[i + 1] ELSE IF k = i + 1 THEN b[i] ELSE b[k]]

\* a batch to group; windows is the result of grouping the batch in its present
\* order (once grouped), first that of its first grouping
GroupInit ==
  /\ PassInit
  /\ resolution = NoCall
  /\ \E b \in Batches :
       grouping = [batch |-> b, grouped |-> FALSE, calls |-> 0,
                   first |-> <<>>, windows |-> <<>>]

\* const windows = groupByTimeWindow(transcripts)
Group ==
  /\ ~ grouping.grouped
  /\ LET wins == groupByTimeWindow(grouping.batch)
     IN grouping' = [grouping EXCEPT
                       !.grouped = TRUE,
                       !.calls = 1,
                       !.windows = wins,
                       !.first = IF grouping.calls = 0 THEN wins ELSE @]
  /\ UNCHANGED <<passVars, resolution>>

\* the same records come in another order
Permute ==
  /\ grouping.grouped
  /\ \E i \in 1..(Len(grouping.batch) - 1) :
       grouping' = [grouping EXCEPT !.batch = SwapAt(@, i), !.grouped = FALSE,
                                       !.windows = <<>>]
  /\ UNCHANGED <<passVars, resolution>>

GroupNext == Group \/ Permute

GroupSpec == GroupInit /\ [][GroupNext]_vars

HasGrouped == grouping # NoCall /\ grouping.grouped

------------------------------------------------------------------------------
(* C15: grouping does not depend on the order of the batch *)

\* the key a window is bound to: that of its first member
WindowKeyOf(w) == WindowKey(w.transcripts[1])

MemberIds(w) == {w.transcripts[j].id : j \in 1..Len(w.transcripts)}

\* what of a window must not depend on the order: key, members, timestamps
WindowShape(w) ==
  [key |-> WindowKeyOf(w), members |-> MemberIds(w),
   earliest_ts |-> w.earliest_ts, latest_ts |-> w.latest_ts]

\* the attributes a window takes over from a record
WindowAttributes(w) ==
  [key |-> WindowKeyOf(w), project_slug |-> w.project_slug,
   project_folder |-> w.project_folder, team_port |-> w.team_port]

ShapesOf(wins) == {WindowShape(wins[i]) : i \in 1..Len(wins)}
AttributesOf(wins) == {WindowAttributes(wins[i]) : i \in 1..Len(wins)}

\* C15: for every permutation of a batch groupByTimeWindow yields the same
\* windows: the same keys, member sets, earliest and latest timestamps, and the
\* same attributes project_slug, project_folder and team_port.
C15_OrderAgnostic ==
  HasGrouped =>
    /\ ShapesOf(grouping.windows) = ShapesOf(grouping.first)
    /\ AttributesOf(grouping.windows) = AttributesOf(grouping.first)

\* the part of C15 the code keeps: keys, member sets and timestamps
C15_ShapeOrderAgnostic ==
  HasGrouped => ShapesOf(grouping.windows) = ShapesOf(grouping.first)

------------------------------------------------------------------------------
(* C17: grouping partitions the batch by source, port and window start *)

\* the windows of wins that hold record t
WindowsHolding(wins, t) ==
  {i \in 1..Len(wins) : \E j \in 1..Len(wins[i].transcripts) : wins[i].transcripts[j] = t}

\* t and u agree on source type, session file, port (defaults applied) and
\* window start
SameGroup(t, u) ==
  /\ KeySourceType(t) = KeySourceType(u)
  /\ KeySourceName(t) = KeySourceName(u)
  /\ KeyTeamPort(t) = KeyTeamPort(u)
  /\ WindowStartOf(RecordTs(t)) = WindowStartOf(RecordTs(u))

\* every record is in exactly one window
C17_ExactlyOneWindow ==
  HasGrouped =>
    \A k \in 1..Len(grouping.batch) :
      Cardinality(WindowsHolding(grouping.windows, grouping.batch[k])) = 1

\* a window starts at the floor of each member's timestamp
C17_WindowStart ==
  HasGrouped =>
    \A i \in 1..Len(grouping.windows) :
      LET w == grouping.windows[i]
      IN \A j \in 1..Len(w.transcripts) :
           LET ts == RecordTs(w.transcripts[j])
           IN /\ w.windowStart = (ts \div 1800000) * 1800000
              /\ w.windowStart <= ts
              /\ ts < w.windowStart + 1800000

\* C17: groupByTimeWindow partitions the batch: every record is in exactly one
\* window, whose windowStart is floor(ts / 1800000) * 1800000 for the record's
\* timestamp, and two records share a window exactly when they agree on
\* source_type, session_file, team_port (with defaults) and window start.
C17_PartitionByKey ==
  /\ C17_ExactlyOneWindow
  /\ C17_WindowStart
  /\ HasGrouped =>
       \A k, l \in 1..Len(grouping.batch) :
         LET t == grouping.batch[k]
             u == grouping.batch[l]
         IN (WindowsHolding(grouping.windows, t) = WindowsHolding(grouping.windows, u))
              <=> SameGroup(t, u)

------------------------------------------------------------------------------
(* C18: the sessions count of the summary *)

InLoop(p) == pc[p] \in {"lookup_project", "lookup_unassigned", "insert", "mark_short", "mark"}

\* the step ends pass p's handling of its current window
LeavesWindow(p) == InLoop(p) /\ idx'[p] # idx[p]

\* the row of the current window is in the table because this pass inserted it
CreatedRow(p) == pc[p] = "mark" /\ insertError[p] = "none"

\* a window that is short or whose insert failed (answered or thrown) is left
\* without a session counted
C18_NothingInsertedNothingCounted ==
  [][\A p \in Passes :
       (Moved(p) /\ LeavesWindow(p) /\ pc[p] # "mark")
         => SessionsAfter(p) = sessionsCreated[p]]_vars

\* C18: the sessions count of a pass's summary is the number of session rows
\* the pass created: the count starts at 0, changes only when the pass leaves a
\* window, and then rises by one if the pass inserted the window's row and not
\* at all if the window was short, its insert failed or its insert was answered
\* "duplicate key".
C18_SessionsCountsCreatedRows ==
  [][\A p \in Passes :
       Moved(p) =>
         /\ (pc[p] = "idle" /\ pc'[p] # "done") => sessionsCreated'[p] = 0
         /\ (InLoop(p) /\ ~ LeavesWindow(p)) => sessionsCreated'[p] = sessionsCreated[p]
         /\ LeavesWindow(p) =>
              SessionsAfter(p) = sessionsCreated[p] + (IF CreatedRow(p) THEN 1 ELSE 0)]_vars

------------------------------------------------------------------------------
(* C19: the row of a window is in the table before its members are marked *)

\* the session table holds a row with the key of the row of window win
RowInStore(table, win) ==
  \E k \in 1..Len(table) :
    RowWindowKey(table[k]) = RowWindowKey(SessionRow(win, <<>>))

\* the insert of the current window succeeded or was answered "duplicate key"
InsertSettled(p) == insertError[p] \in {"none", "duplicate key"}

IsMember(win, i) == \E k \in 1..Len(win.transcripts) : win.transcripts[k].id = i

\* record t alone makes a window of 100 characters or more, so every window
\* that holds it is one
NeverShort(t) == TextLen(t.content) + 1 >= MIN_CONTENT_LENGTH

\* the table holds a row of the source and window start of record t
RowOfRecord(table, t) ==
  \E k \in 1..Len(table) :
    /\ table[k].source_type = KeySourceType(t)
    /\ table[k].source_name = KeySourceName(t)
    /\ table[k].started_at = WindowStartOf(RecordTs(t))

\* C19: within a pass persist precedes mark-processed: a pass is in the mark
\* step of a window of 100 characters or more only after the window's insert
\* succeeded or was answered "duplicate key", and the window's row is in the
\* table then; a record is flipped to processed only by a pass that handles a
\* window holding it, in the marks of a short window or in that mark step; so
\* a processed record whose windows are never short has a session row.
C19_PersistBeforeMark ==
  /\ [](\A p \in Passes :
          pc[p] = "mark" =>
            /\ ~ IsShort(CurrentWindow(p))
            /\ InsertSettled(p)
            /\ RowInStore(sessions, CurrentWindow(p)))
  /\ [][\A p \in Passes : \A i \in DOMAIN raw :
          (Moved(p) /\ ~ raw[i].processed /\ raw'[i].processed) =>
            /\ IsMember(CurrentWindow(p), i)
            /\ \/ pc[p] = "mark_short" /\ IsShort(CurrentWindow(p))
               \/ /\ pc[p] = "mark"
                  /\ InsertSettled(p)
                  /\ RowInStore(sessions, CurrentWindow(p))
                  /\ RowInStore(sessions', CurrentWindow(p))]_vars
  /\ [](\A i \in DOMAIN raw :
          (raw[i].processed /\ NeverShort(raw[i])) => RowOfRecord(sessions, raw[i]))

\* a pass has inserted the row of a window of two records and has marked the
\* first of them: the row is in the table, the second is still unprocessed
C19_Witness ==
  \E p \in Passes :
    /\ pc[p] = "mark"
    /\ insertError[p] = "none"
    /\ markIdx[p] = 2
    /\ raw[CurrentWindow(p).transcripts[1].id].processed
    /\ ~ raw[CurrentWindow(p).transcripts[2].id].processed
    /\ RowInStore(sessions, CurrentWindow(p))

------------------------------------------------------------------------------
(* C20: what a pass changes in the two tables *)

\* the ids of the records pass p fetched
Snapshot(p) ==
  UNION {{windows[p][w].transcripts[k].id : k \in 1..Len(windows[p][w].transcripts)} :
           w \in 1..Len(windows[p])}

\* C20: a pass changes the stores only by inserting session rows and by
\* setting processed to true on records of its snapshot: no raw record is
\* deleted, none goes back to unprocessed, no other field of one changes, a
\* record that changes is one the stepping pass fetched, a new record comes
\* from the producer alone, and the session table only grows by the one row a
\* pass is inserting, its earlier rows staying as they are.
C20_OnlyInsertsAndMarks ==
  [][/\ DOMAIN raw \subseteq DOMAIN raw'
     /\ DOMAIN raw' # DOMAIN raw => \A p \in Passes : ~ Moved(p)
     /\ \A i \in DOMAIN raw :
          /\ raw[i].processed => raw'[i].processed
          /\ raw'[i] = [raw[i] EXCEPT !.processed = raw'[i].processed]
          /\ raw'[i] # raw[i] =>
               \E p \in Passes : Moved(p) /\ InMarks(p) /\ i \in Snapshot(p)
     /\ \/ sessions' = sessions
        \/ \E p \in Passes :
             /\ Moved(p)
             /\ pc[p] = "insert"
             /\ sessions' = Append(sessions, SessionRow(CurrentWindow(p),
                                                        resolvedProjectUuid[p]))]_vars

\* a pass has ended that fetched one long record, inserted its row and marked
\* it, while a record that arrived after its fetch is untouched
C20_Witness ==
  \E p \in Passes :
    /\ pc[p] = "done"
    /\ result[p] = [processed |-> 1, sessions |-> 1, errors |-> 0]
    /\ Len(sessions) = 1
    /\ \E i, j \in DOMAIN raw :
         /\ raw[i].processed
         /\ NeverShort(raw[i])
         /\ raw[j] = CandidateRecords[j]
         /\ ~ raw[j].processed

====
